---- MODULE Spec2Model ----
(***************************************************************************)
(* Model of the monthly archive cycle, scripts/archive_cycle.py:           *)
(*   fetch DailyLog and Meals candidates (paginated GET, 429 backoff),     *)
(*   write the two CSV dumps, create the ExportRun record (POST),          *)
(*   mark the exported records as archived (PATCH in batches of 10).       *)
(*                                                                         *)
(* One step of the model is one HTTP attempt together with the code that   *)
(* handles its response, or one of the request-free steps of main.         *)
(*                                                                         *)
(* Python values: a str read character by character (a header value, the   *)
(* run tag) is a sequence of one-character strings; an opaque str is a     *)
(* TLA+ string; a dict is a function whose DOMAIN is its key set; None is  *)
(* the value None below.                                                   *)
(***************************************************************************)
EXTENDS Integers, Sequences, FiniteSets, TLC

\* ---------------------------------------------------------------- bounds
\* Most page responses the server gives to one fetch_records call.
MaxPages == 3
\* Most records one view of the server holds.
MaxView == 101

\* ------------------------------------------------------ program constants
PAGE_SIZE == 100
PATCH_BATCH == 10
\* MIN_SLEEP = 0.25 s, in milliseconds
MIN_SLEEP == 250
\* for attempt in range(8)
MAX_ATTEMPTS == 8
\* resp.status_code != 429
TOO_MANY_REQUESTS == 429

TABLE_DAILYLOG == "DailyLog"
TABLE_MEALS == "Meals"
TABLE_RUNS == "ExportRun"
VIEW_DAILYLOG == "Export_DailyLog"
VIEW_MEALS == "Export_Meals"

RUN_FIELD_RUNID == "RunId"
RUN_FIELD_STATUS == "Status"
RUN_FIELD_EXECUTED_AT == "ExecutedAt"
RUN_FIELD_CUTOFF == "CutoffDate"
RUN_FIELD_DL_COUNT == "DailyLogCount"
RUN_FIELD_MEALS_COUNT == "MealsCount"
RUN_FIELD_DL_FILE == "DailyLogFile"
RUN_FIELD_MEALS_FILE == "MealsFile"

FIELD_ARCHIVED == "Archived"
FIELD_ARCHIVED_AT == "ArchivedAt"
FIELD_ARCHIVE_BATCH == "ArchiveBatch"
FIELD_EXPORT_RUN_LINK == "ExportRun"

\* The 13 DailyLog columns, transliterated to ASCII, in the source's order.
DAILYLOG_FIELDS ==
    << "Ves utrom", "Ves vecherom", "Srednij ves za den", "Data",
       "Kalorii priema pishchi", "Belki priema pishchi", "Zhiry priema pishchi",
       "Uglevody priema pishchi", "Cel po kaloriyam", "Cel po belkam",
       "Cel po zhiram", "Cel po uglevodam", "Opisanie" >>

\* The 10 Meals columns, transliterated to ASCII, in the source's order.
MEALS_FIELDS ==
    << "Tip priema pishchi", "Data i vremya", "Vid priema pishchi",
       "Kalorii priema pishchi", "Belki priema pishchi", "Zhiry priema pishchi",
       "Uglevody priema pishchi", "DayKey", "DayDate", "Opisanie" >>

\* ------------------------------------------------------------ Python values
None == "<None>"

\* d.get(k, default) of a dict
DictGet(d, k, default) == IF k \in DOMAIN d THEN d[k] ELSE default

\* truth value of an Optional[str]
Truthy(v) == v # None /\ v # ""

Max(a, b) == IF a >= b THEN a ELSE b
Min(a, b) == IF a <= b THEN a ELSE b

Digits == << "0", "1", "2", "3", "4", "5", "6", "7", "8", "9" >>

DigitChar(d) == Digits[d + 1]

DigitValue(c) == CHOOSE d \in 0..9 : Digits[d + 1] = c

IsDigit(c) == \E d \in 1..10 : Digits[d] = c

\* Value of a non-empty run of decimal digits.
RECURSIVE DigitsValue(_)
DigitsValue(s) ==
    IF Len(s) = 0 THEN 0
    ELSE 10 * DigitsValue(SubSeq(s, 1, Len(s) - 1)) + DigitValue(s[Len(s)])

\* int(s) of a str without surrounding blanks: an optional sign and at
\* least one decimal digit; anything else raises ValueError.
IntBody(s) == IF Len(s) > 0 /\ s[1] \in {"+", "-"} THEN Tail(s) ELSE s

IntParses(s) ==
    /\ Len(IntBody(s)) > 0
    /\ \A i \in 1..Len(IntBody(s)) : IsDigit(IntBody(s)[i])

IntOf(s) ==
    IF s[1] = "-" THEN 0 - DigitsValue(IntBody(s)) ELSE DigitsValue(IntBody(s))

\* ------------------------------------------------------------------ naming
\* dt.strftime("%m:%Y"): two-digit month, colon, four-digit year
mm_colon_yyyy(dt) ==
    << DigitChar(dt.month \div 10), DigitChar(dt.month % 10), ":",
       DigitChar(dt.year \div 1000), DigitChar((dt.year \div 100) % 10),
       DigitChar((dt.year \div 10) % 10), DigitChar(dt.year % 10) >>

dump_folder_name(tag) == << "dump_" >> \o tag

dailylog_file_name(tag) == << "DailyLog_dump_" >> \o tag \o << ".csv" >>

meals_file_name(tag) == << "Meals_dump_" >> \o tag \o << ".csv" >>

\* Path("exports") / dump_folder_name(tag) / name, as str with "/" separators
dump_path(tag, name) == << "exports", "/" >> \o dump_folder_name(tag) \o << "/" >> \o name

\* ----------------------------------------------------------------- helpers
\* A cell value as Python sees it: a scalar (str, number, bool), a list of
\* scalars or a dict.
Scalar(v) == [kind |-> "scalar", v |-> v]

\* "; ".join(str(x) for x in v), the joined text as a sequence of pieces
RECURSIVE JoinList(_)
JoinList(v) ==
    IF Len(v) = 0 THEN << >>
    ELSE IF Len(v) = 1 THEN << v[1] >>
    ELSE << v[1], "; " >> \o JoinList(Tail(v))

normalize_cell(x) ==
    IF x.kind = "list" THEN JoinList(x.v)
    ELSE IF x.kind = "dict" THEN << "str", x.v >>
    ELSE x.v

\* resp.raise_for_status(): raises HTTPError for a 4xx or 5xx status
RaisesForStatus(status) == status >= 400 /\ status < 600

\* _request_with_backoff retrying a 5xx answer as it retries a 429.
request_with_backoff_retry_5xx(attempt, resp) ==
    IF resp.status # TOO_MANY_REQUESTS /\ resp.status < 500
    THEN IF RaisesForStatus(resp.status)
         THEN [kind |-> "raise", exc |-> "HTTPError", slept |-> 0]
         ELSE [kind |-> "return", exc |-> "", slept |-> 0]
    ELSE LET h == DictGet(resp.headers, "Retry-After", << "1" >>) IN
         IF ~IntParses(h)
         THEN [kind |-> "raise", exc |-> "ValueError", slept |-> 0]
         ELSE LET s == Max(IntOf(h), 1) IN
              IF attempt + 1 < MAX_ATTEMPTS
              THEN [kind |-> "retry", exc |-> "", slept |-> s]
              ELSE IF RaisesForStatus(resp.status)
                   THEN [kind |-> "raise", exc |-> "HTTPError", slept |-> s]
                   ELSE [kind |-> "return", exc |-> "", slept |-> s]

\* _request_with_backoff without resp.raise_for_status() on a non-429 answer.
request_with_backoff_no_raise(attempt, resp) ==
    IF resp.status # TOO_MANY_REQUESTS
    THEN [kind |-> "return", exc |-> "", slept |-> 0]
    ELSE LET h == DictGet(resp.headers, "Retry-After", << "1" >>) IN
         IF ~IntParses(h)
         THEN [kind |-> "raise", exc |-> "ValueError", slept |-> 0]
         ELSE LET s == Max(IntOf(h), 1) IN
              IF attempt + 1 < MAX_ATTEMPTS
              THEN [kind |-> "retry", exc |-> "", slept |-> s]
              ELSE IF RaisesForStatus(resp.status)
                   THEN [kind |-> "raise", exc |-> "HTTPError", slept |-> s]
                   ELSE [kind |-> "return", exc |-> "", slept |-> s]

\* _request_with_backoff looping over range(9): a ninth attempt.
request_with_backoff_nine(attempt, resp) ==
    IF resp.status # TOO_MANY_REQUESTS
    THEN IF RaisesForStatus(resp.status)
         THEN [kind |-> "raise", exc |-> "HTTPError", slept |-> 0]
         ELSE [kind |-> "return", exc |-> "", slept |-> 0]
    ELSE LET h == DictGet(resp.headers, "Retry-After", << "1" >>) IN
         IF ~IntParses(h)
         THEN [kind |-> "raise", exc |-> "ValueError", slept |-> 0]
         ELSE LET s == Max(IntOf(h), 1) IN
              IF attempt < MAX_ATTEMPTS
              THEN [kind |-> "retry", exc |-> "", slept |-> s]
              ELSE IF RaisesForStatus(resp.status)
                   THEN [kind |-> "raise", exc |-> "HTTPError", slept |-> s]
                   ELSE [kind |-> "return", exc |-> "", slept |-> s]

\* One iteration of the loop of _request_with_backoff, `attempt` in
\* range(8), on the response `resp` of that attempt; for the last iteration
\* also the two statements after the loop.  kind: "return" (resp goes to the
\* caller), "raise" (exc propagates) or "retry" (next iteration); slept: the
\* seconds of time.sleep(max(retry_after, 1)).
request_with_backoff(attempt, resp) ==
    IF resp.status # TOO_MANY_REQUESTS
    THEN IF RaisesForStatus(resp.status)
         THEN [kind |-> "raise", exc |-> "HTTPError", slept |-> 0]
         ELSE [kind |-> "return", exc |-> "", slept |-> 0]
    ELSE LET h == DictGet(resp.headers, "Retry-After", << "1" >>) IN
         IF ~IntParses(h)
         THEN [kind |-> "raise", exc |-> "ValueError", slept |-> 0]
         ELSE LET s == Max(IntOf(h), 1) IN
              IF attempt + 1 < MAX_ATTEMPTS
              THEN [kind |-> "retry", exc |-> "", slept |-> s]
              ELSE IF RaisesForStatus(resp.status)
                   THEN [kind |-> "raise", exc |-> "HTTPError", slept |-> s]
                   ELSE [kind |-> "return", exc |-> "", slept |-> s]

\* fetch_records never sending the continuation token.
fetch_params_no_offset(view, fields, offset) ==
    [view |-> view, pageSize |-> PAGE_SIZE, fields |-> fields]

\* fetch_records: the params of one page request
fetch_params(view, fields, offset) ==
    IF Truthy(offset)
    THEN [view |-> view, pageSize |-> PAGE_SIZE, fields |-> fields, offset |-> offset]
    ELSE [view |-> view, pageSize |-> PAGE_SIZE, fields |-> fields]

\* fetch_records keeping only the records of the last page.
fetch_extend_replace(out, data) == DictGet(data, "records", << >>)

\* out.extend(data.get("records", []))
fetch_extend(out, data) == out \o DictGet(data, "records", << >>)

\* offset = data.get("offset")
fetch_offset(data) == DictGet(data, "offset", None)

\* One row of the CSV: a cell per column, "" for a field the record lacks.
csv_row(fields, rec) ==
    [c \in 1..Len(fields) |->
        normalize_cell(DictGet(DictGet(rec, "fields", << >>), fields[c], Scalar("")))]

\* write_csv_utf8sig writing no header row when there is no record.
write_csv_utf8sig_no_header(fields, records) ==
    [header |-> IF Len(records) = 0 THEN << >> ELSE fields,
     rows |-> [k \in 1..Len(records) |-> csv_row(fields, records[k])]]

\* The file write_csv_utf8sig leaves: the header row, then a row per record.
write_csv_utf8sig(fields, records) ==
    [header |-> fields,
     rows |-> [k \in 1..Len(records) |-> csv_row(fields, records[k])]]

\* lst[i:j] of a list, i and j 0-based, j clipped to len(lst)
Slice(lst, i, j) == SubSeq(lst, i + 1, Min(j, Len(lst)))

\* chunk yielding lst[i:i + n - 1], one element short.
chunk_short(lst, n, i) == SubSeq(lst, i + 1, Min(i + n - 1, Len(lst)))

\* chunk(lst, n): the part the generator yields at loop index i, lst[i:i + n]
chunk(lst, n, i) == Slice(lst, i, i + n)

\* range(0, len(lst), n): is there another index after i
chunk_more(lst, n, i) == i + n < Len(lst)

\* create_export_run: the fields of the ExportRun record
create_export_run_fields(tag, cutoff_date, daily_count, meals_count, daily_file, meals_file, executed_at) ==
    LET base == (RUN_FIELD_RUNID :> tag) @@ (RUN_FIELD_STATUS :> "Exported")
                @@ (RUN_FIELD_EXECUTED_AT :> executed_at)
                @@ (RUN_FIELD_DL_COUNT :> daily_count)
                @@ (RUN_FIELD_MEALS_COUNT :> meals_count)
        cut == IF Truthy(cutoff_date) THEN base @@ (RUN_FIELD_CUTOFF :> cutoff_date) ELSE base
        dlf == IF Truthy(RUN_FIELD_DL_FILE) THEN cut @@ (RUN_FIELD_DL_FILE :> daily_file) ELSE cut
    IN IF Truthy(RUN_FIELD_MEALS_FILE) THEN dlf @@ (RUN_FIELD_MEALS_FILE :> meals_file) ELSE dlf

\* infer_cutoff_date: always None
infer_cutoff_date(dl_records) == None

\* patch_records_archived: the payload of one batch
patch_payload(part, now, tag, run_id) ==
    [records |->
        [k \in 1..Len(part) |->
            [id |-> part[k],
             fields |-> (FIELD_ARCHIVED :> TRUE) @@ (FIELD_ARCHIVED_AT :> now)
                        @@ (FIELD_ARCHIVE_BATCH :> tag)
                        @@ (FIELD_EXPORT_RUN_LINK :> << run_id >>)]]]

\* [r["id"] for r in records]
record_ids(records) == [k \in 1..Len(records) |-> records[k].id]

\* main creating the ExportRun record before it writes the CSV dumps.
main_next_create_first(step) ==
    CASE step = "main" -> "fetch_dl"
      [] step = "fetch_dl" -> "fetch_ml"
      [] step = "fetch_ml" -> "create_run"
      [] step = "create_run" -> "write_dl"
      [] step = "write_dl" -> "write_ml"
      [] step = "write_ml" -> "mark_dl"
      [] step = "mark_dl" -> "mark_ml"
      [] step = "mark_ml" -> "done"

\* main marking the Meals records before the DailyLog records.
main_next_meals_first(step) ==
    CASE step = "main" -> "fetch_dl"
      [] step = "fetch_dl" -> "fetch_ml"
      [] step = "fetch_ml" -> "write_dl"
      [] step = "write_dl" -> "write_ml"
      [] step = "write_ml" -> "create_run"
      [] step = "create_run" -> "mark_ml"
      [] step = "mark_ml" -> "mark_dl"
      [] step = "mark_dl" -> "done"

\* The step of main that follows `step`, in program order.
main_next(step) ==
    CASE step = "main" -> "fetch_dl"
      [] step = "fetch_dl" -> "fetch_ml"
      [] step = "fetch_ml" -> "write_dl"
      [] step = "write_dl" -> "write_ml"
      [] step = "write_ml" -> "create_run"
      [] step = "create_run" -> "mark_dl"
      [] step = "mark_dl" -> "mark_ml"
      [] step = "mark_ml" -> "done"

\* __main__: the exit code for an exception out of main: sys.exit(2) for a
\* KeyError, the exception raised again (exit code 1) for any other
exit_code(e) == IF e = "KeyError" THEN 2 ELSE 1

\* ------------------------------------------------------------------ state
VARIABLES
    pc,             \* the step of main the program is at
    at,             \* inside the function of that step: "entry" or "loop"
    status,         \* "running", "done", or "failed" (an exception left main)
    exc,            \* the exception that ended the process, "" if none
    env,            \* os.environ: the names of the variables that are set
    start,          \* datetime.utcnow() at the start of main: [year, month]
    clock,          \* the number of datetime.utcnow() readings so far
    run_tag,        \* main: run_tag
    dl, ml,         \* main: the fetched DailyLog and Meals records
    run_record_id,  \* main: the id create_export_run returned, None before
    out, offset,    \* fetch_records: locals
    now, idx,       \* patch_records_archived: now, and the index i of chunk's loop
    call,           \* _request_with_backoff: the current (or the last) call
    req, resp,      \* the last HTTP request sent and the response to it
    csv,            \* the file system: the content of each file written, by path
    served,         \* server: records of each view handed out so far
    pages,          \* server: page responses given to the current fetch_records call
    last_token,     \* server: the token of the preceding page response of this call
    posts,          \* server: the records created, each with the id it was given
    patches,        \* server: the update calls received and the status last answered
    marked,         \* server: the ids of the records marked archived, in order
    srv             \* server: "finite" or "lean" if each view ends within MaxPages
                    \* pages, "endless" if every page it answers carries a token

cycle_vars == << pc, at, status, exc, env, start, clock, run_tag, dl, ml, run_record_id, out, offset,
           now, idx, call, req, resp, csv, served, pages, last_token, posts, patches,
           marked, srv >>

\* State of build_report_html.py, and of the functions of both scripts that
\* are followed on their own.
VARIABLES
    rpc,            \* the position in the function followed, "idle" if none is
    days, meals,    \* build_html: the rows read from the two CSV files
    by_day,         \* build_html: by_day, the meals of each day key
    doc,            \* build_html: the pages written, each a list of day blocks
    fact, target,   \* kcal_badge: its arguments
    badge,          \* kcal_badge: the class returned
    raw_dt,         \* render_day_block: the meal's timestamp cell
    meal_dt,        \* render_day_block: meal_dt, the text shown
    csv_fields,     \* write_csv_utf8sig: fields
    csv_records,    \* write_csv_utf8sig: records
    csv_text,       \* the text of the file written
    csv_back        \* read_csv: the rows read back

report_vars == << days, meals, by_day, doc >>

badge_vars == << fact, target, badge >>

fmt_vars == << raw_dt, meal_dt >>

csv_vars == << csv_fields, csv_records, csv_text, csv_back >>

\* Everything outside the archive cycle.
off_cycle == << rpc, report_vars, badge_vars, fmt_vars, csv_vars >>

vars == << cycle_vars, off_cycle >>

ReportIdle == days = << >> /\ meals = << >> /\ by_day = << >> /\ doc = << >>

BadgeIdle == fact = << >> /\ target = << >> /\ badge = ""

FmtIdle == raw_dt = << >> /\ meal_dt = << >>

CsvIdle == csv_fields = << >> /\ csv_records = << >> /\ csv_text = << >> /\ csv_back = << >>

Tables == { TABLE_DAILYLOG, TABLE_MEALS }

\* ----------------------------------------------------------------- server
\* The k-th record of a view.  Its id is unique over both tables; it has one
\* field, the date column the table exports.
RecId(table, k) == IF table = TABLE_DAILYLOG THEN k ELSE MaxView + k

DateField(table) == IF table = TABLE_DAILYLOG THEN DAILYLOG_FIELDS[4] ELSE MEALS_FIELDS[9]

Record(table, k) ==
    [id |-> RecId(table, k), fields |-> (DateField(table) :> Scalar(RecId(table, k)))]

StartDates == { [year |-> 2026, month |-> 2] }

\* The "finite" server answers with every value below; the "lean" and the
\* "endless" server answer with one value of each kind.
Tokens == IF srv = "finite" THEN { "itrA", "itrB" } ELSE { "itrA" }

RunIds == IF srv = "finite" THEN { "recRunA", "recRunB" } ELSE { "recRunA" }

ErrorStatuses == IF srv = "finite" THEN { 404, 500 } ELSE { 500 }

\* Retry-After of a 429 response: absent, seconds, or an HTTP-date
RetryAfterValues == { << "3" >>, << "W", "e", "d" >> }

ThrottleResponses ==
    { [status |-> TOO_MANY_REQUESTS, headers |-> h, body |-> << >>] :
        h \in { << >> } \cup { ("Retry-After" :> v) : v \in RetryAfterValues } }

ErrorResponses ==
    { [status |-> s, headers |-> << >>, body |-> << >>] : s \in ErrorStatuses }

Ok(body) == [status |-> 200, headers |-> << >>, body |-> body]

\* The sizes of the pages the server answers with.
PageSizes == IF srv = "finite" THEN { 0, 1, PAGE_SIZE } ELSE { 0, PAGE_SIZE }

\* The bodies the server may answer a page request of `table` with: the next
\* n records of the view, with or without a continuation token.
PageBodies(table) ==
    LET recs(n) == [k \in 1..n |-> Record(table, served[table] + k)]
        sizes == { n \in PageSizes : served[table] + n =< MaxView }
        more == IF srv = "endless" \/ pages + 1 < MaxPages THEN Tokens ELSE { }
        last == IF srv = "endless" THEN { }
                ELSE { [records |-> recs(n), offset |-> ""] : n \in sizes }
                     \cup { [records |-> recs(n)] : n \in sizes }
    IN { [records |-> recs(n), offset |-> t] : n \in sizes, t \in more }
       \cup { [offset |-> t] : t \in more }
       \cup last

GetResponses(table) ==
    { Ok(b) : b \in PageBodies(table) } \cup ThrottleResponses \cup ErrorResponses

PostResponses ==
    { Ok([id |-> r]) : r \in RunIds } \cup { Ok([createdTime |-> "t"]) }
    \cup ThrottleResponses \cup ErrorResponses

PatchResponses == { Ok([records |-> << >>]) } \cup ThrottleResponses \cup ErrorResponses

\* ------------------------------------------------------------------- main
TableOf(step) == IF step \in { "fetch_dl", "mark_dl" } THEN TABLE_DAILYLOG ELSE TABLE_MEALS

ViewOf(table) == IF table = TABLE_DAILYLOG THEN VIEW_DAILYLOG ELSE VIEW_MEALS

FieldsOf(table) == IF table = TABLE_DAILYLOG THEN DAILYLOG_FIELDS ELSE MEALS_FIELDS

dl_path == dump_path(run_tag, dailylog_file_name(run_tag))

meals_path == dump_path(run_tag, meals_file_name(run_tag))

\* The environments the script is started in.
Environments ==
    { { "AIRTABLE_TOKEN", "AIRTABLE_BASE_ID" }, { "AIRTABLE_BASE_ID" }, { "AIRTABLE_TOKEN" } }

\* No function outside the cycle is followed.
OffCycleIdle == rpc = "idle" /\ ReportIdle /\ BadgeIdle /\ FmtIdle /\ CsvIdle

\* The locals of main and the server before the first statement of main.
CycleFresh ==
    /\ clock = 0
    /\ run_tag = << >>
    /\ dl = << >> /\ ml = << >>
    /\ run_record_id = None
    /\ out = << >> /\ offset = None
    /\ now = 0 /\ idx = 0
    /\ call = [n |-> 0, outcome |-> "none", pre |-> 0, slept |-> 0]
    /\ req = [method |-> "none"]
    /\ resp = [status |-> 0, headers |-> << >>, body |-> << >>]
    /\ csv = << >>
    /\ served = [t \in Tables |-> 0]
    /\ pages = 0 /\ last_token = None
    /\ posts = << >> /\ patches = << >> /\ marked = << >>

\* The archive cycle is not run.
CycleIdle ==
    /\ pc = "idle" /\ at = "entry" /\ status = "idle" /\ exc = ""
    /\ env = { }
    /\ srv = "finite"
    /\ start \in StartDates
    /\ CycleFresh

\* The script is started, against a server of one of the given kinds.
CycleInit(kinds) ==
    /\ pc = "load" /\ at = "entry" /\ status = "running" /\ exc = ""
    /\ env \in Environments
    /\ srv \in kinds
    /\ OffCycleIdle
    /\ start \in StartDates
    /\ CycleFresh

Init == CycleInit({ "finite" })

\* The 0-based index of the loop iteration of _request_with_backoff that the
\* next attempt is: 0 for a new call.
AttemptIndex == IF call.outcome = "running" THEN call.n ELSE 0

\* One attempt: _sleep(), the request, and what the loop does with the answer.
Attempt(request, response) ==
    LET r == request_with_backoff(AttemptIndex, response) IN
    /\ req' = request
    /\ resp' = response
    /\ call' = [n |-> AttemptIndex + 1,
                outcome |-> IF r.kind = "retry" THEN "running"
                            ELSE IF r.kind = "return" THEN "returned" ELSE "raised",
                pre |-> MIN_SLEEP,
                slept |-> r.slept]

\* An exception leaves main.
Raise(e) == status' = "failed" /\ exc' = e /\ UNCHANGED << pc, at >>

\* The function of the current step returns to main.
Return ==
    /\ pc' = main_next(pc)
    /\ at' = "entry"
    /\ status' = IF main_next(pc) = "done" THEN "done" ELSE status
    /\ exc' = exc

\* os.environ[name]: raises KeyError when the variable is not set
environ_has(name) == name \in env

\* The module-level statements: AIRTABLE_TOKEN and AIRTABLE_BASE_ID are read
\* when the module is loaded, before the try statement of __main__ is entered.
ModuleLoad ==
    /\ status = "running" /\ pc = "load"
    /\ IF environ_has("AIRTABLE_TOKEN") /\ environ_has("AIRTABLE_BASE_ID")
       THEN pc' = "main" /\ UNCHANGED << at, status, exc >>
       ELSE Raise("KeyError")
    /\ UNCHANGED << start, env, srv, off_cycle, clock, run_tag, dl, ml, run_record_id, out, offset,
                    now, idx, call, req, resp, csv, served, pages, last_token, posts,
                    patches, marked >>

\* main, up to the first fetch: now, tag, run_tag, the paths
MainStart ==
    /\ status = "running" /\ pc = "main"
    /\ run_tag' = mm_colon_yyyy(start)
    /\ clock' = clock + 1
    /\ Return
    /\ UNCHANGED << start, env, srv, off_cycle, dl, ml, run_record_id, out, offset, now, idx, call, req, resp,
                    csv, served, pages, last_token, posts, patches, marked >>

\* fetch_records, before its loop
FetchEnter ==
    /\ status = "running" /\ pc \in { "fetch_dl", "fetch_ml" } /\ at = "entry"
    /\ out' = << >> /\ offset' = None
    /\ pages' = 0 /\ last_token' = None
    /\ at' = "loop"
    /\ UNCHANGED << pc, status, exc, start, env, srv, off_cycle, clock, run_tag, dl, ml, run_record_id, now, idx,
                    call, req, resp, csv, served, posts, patches, marked >>

\* fetch_records: one attempt of a page request, and the loop body after it
FetchAttempt ==
    /\ status = "running" /\ pc \in { "fetch_dl", "fetch_ml" } /\ at = "loop"
    /\ \E response \in GetResponses(TableOf(pc)) :
        LET t == TableOf(pc)
            r == request_with_backoff(AttemptIndex, response)
            request == [method |-> "GET", table |-> t,
                        params |-> fetch_params(ViewOf(t), FieldsOf(t), offset)]
            data == response.body
            given == response.status = 200
        IN /\ Attempt(request, response)
           /\ served' = IF given
                        THEN [served EXCEPT ![t] = @ + Len(DictGet(data, "records", << >>))]
                        ELSE served
           /\ IF r.kind = "return" /\ Truthy(fetch_offset(data))
              THEN /\ out' = fetch_extend(out, data)
                   /\ offset' = fetch_offset(data)
                   /\ UNCHANGED << pc, at, status, exc, dl, ml >>
              ELSE IF r.kind = "return"
              THEN /\ dl' = IF pc = "fetch_dl" THEN fetch_extend(out, data) ELSE dl
                   /\ ml' = IF pc = "fetch_ml" THEN fetch_extend(out, data) ELSE ml
                   /\ out' = << >> /\ offset' = None
                   /\ Return
              ELSE IF r.kind = "raise"
              THEN Raise(r.exc) /\ UNCHANGED << dl, ml, out, offset >>
              ELSE UNCHANGED << pc, at, status, exc, dl, ml, out, offset >>
           /\ pages' = IF given /\ Truthy(DictGet(data, "offset", None))
                       THEN (IF pages < MaxPages THEN pages + 1 ELSE pages)
                       ELSE IF given THEN 0 ELSE pages
           /\ last_token' = IF given /\ Truthy(DictGet(data, "offset", None))
                            THEN data.offset
                            ELSE IF given THEN None ELSE last_token
    /\ UNCHANGED << start, env, srv, off_cycle, clock, run_tag, run_record_id, now, idx, csv, posts, patches,
                    marked >>

\* main: write_csv_utf8sig(dl_path, DAILYLOG_FIELDS, dl)
WriteDailyLogCsv ==
    /\ status = "running" /\ pc = "write_dl"
    /\ csv' = (dl_path :> write_csv_utf8sig(DAILYLOG_FIELDS, dl)) @@ csv
    /\ Return
    /\ UNCHANGED << start, env, srv, off_cycle, clock, run_tag, dl, ml, run_record_id, out, offset, now, idx,
                    call, req, resp, served, pages, last_token, posts, patches, marked >>

\* main: write_csv_utf8sig(meals_path, MEALS_FIELDS, ml)
WriteMealsCsv ==
    /\ status = "running" /\ pc = "write_ml"
    /\ csv' = (meals_path :> write_csv_utf8sig(MEALS_FIELDS, ml)) @@ csv
    /\ Return
    /\ UNCHANGED << start, env, srv, off_cycle, clock, run_tag, dl, ml, run_record_id, out, offset, now, idx,
                    call, req, resp, served, pages, last_token, posts, patches, marked >>

\* main: create_export_run(...), one attempt of its POST and the return
CreateAttempt ==
    /\ status = "running" /\ pc = "create_run"
    /\ \E response \in PostResponses :
        LET first == call.outcome # "running"
            r == request_with_backoff(AttemptIndex, response)
            fields == create_export_run_fields(run_tag, infer_cutoff_date(dl), Len(dl),
                                               Len(ml), dl_path, meals_path, clock)
            request == IF first
                       THEN [method |-> "POST", table |-> TABLE_RUNS,
                             json |-> [fields |-> fields]]
                       ELSE req
            body == response.body
        IN /\ Attempt(request, response)
           /\ clock' = IF first THEN clock + 1 ELSE clock
           /\ posts' = IF response.status = 200
                       THEN Append(posts, [json |-> request.json,
                                           id |-> DictGet(body, "id", None)])
                       ELSE posts
           /\ IF r.kind = "return" /\ "id" \in DOMAIN body
              THEN run_record_id' = body.id /\ Return
              ELSE IF r.kind = "return"
              THEN Raise("KeyError") /\ UNCHANGED run_record_id
              ELSE IF r.kind = "raise"
              THEN Raise(r.exc) /\ UNCHANGED run_record_id
              ELSE UNCHANGED << pc, at, status, exc, run_record_id >>
    /\ UNCHANGED << start, env, srv, off_cycle, run_tag, dl, ml, out, offset, now, idx, csv, served, pages,
                    last_token, patches, marked >>

\* main: dl_ids / ml_ids
IdsOf(step) == IF step = "mark_dl" THEN record_ids(dl) ELSE record_ids(ml)

\* patch_records_archived, before its loop
PatchEnter ==
    /\ status = "running" /\ pc \in { "mark_dl", "mark_ml" } /\ at = "entry"
    /\ IF IdsOf(pc) = << >>
       THEN Return /\ UNCHANGED << now, idx, clock >>
       ELSE /\ now' = clock
            /\ clock' = clock + 1
            /\ idx' = 0
            /\ at' = "loop"
            /\ UNCHANGED << pc, status, exc >>
    /\ UNCHANGED << start, env, srv, off_cycle, run_tag, dl, ml, run_record_id, out, offset, call, req, resp,
                    csv, served, pages, last_token, posts, patches, marked >>

\* patch_records_archived: one attempt of the PATCH of the current part
PatchAttempt ==
    /\ status = "running" /\ pc \in { "mark_dl", "mark_ml" } /\ at = "loop"
    /\ \E response \in PatchResponses :
        LET first == call.outcome # "running"
            t == TableOf(pc)
            r == request_with_backoff(AttemptIndex, response)
            part == chunk(IdsOf(pc), PATCH_BATCH, idx)
            request == [method |-> "PATCH", table |-> t,
                        json |-> patch_payload(part, now, run_tag, run_record_id)]
            entry == [table |-> t, json |-> request.json, status |-> response.status]
        IN /\ Attempt(request, response)
           /\ patches' = IF first THEN Append(patches, entry)
                         ELSE [patches EXCEPT ![Len(patches)] = entry]
           /\ marked' = IF response.status = 200
                        THEN marked \o record_ids(request.json.records)
                        ELSE marked
           /\ IF r.kind = "return" /\ chunk_more(IdsOf(pc), PATCH_BATCH, idx)
              THEN idx' = idx + PATCH_BATCH /\ UNCHANGED << pc, at, status, exc, now >>
              ELSE IF r.kind = "return"
              THEN idx' = 0 /\ now' = 0 /\ Return
              ELSE IF r.kind = "raise"
              THEN Raise(r.exc) /\ UNCHANGED << idx, now >>
              ELSE UNCHANGED << pc, at, status, exc, idx, now >>
    /\ UNCHANGED << start, env, srv, off_cycle, clock, run_tag, dl, ml, run_record_id, out, offset, csv, served,
                    pages, last_token, posts >>

Next ==
    \/ ModuleLoad
    \/ MainStart
    \/ FetchEnter
    \/ FetchAttempt
    \/ WriteDailyLogCsv
    \/ WriteMealsCsv
    \/ CreateAttempt
    \/ PatchEnter
    \/ PatchAttempt

Spec == Init /\ [][Next]_vars

\* The same program against a server of either kind, with the program taking
\* its next step whenever it has one: the script is one sequential process,
\* and every request is answered (or times out, which raises).
InitLive == CycleInit({ "lean", "endless" })

SpecLive == InitLive /\ [][Next]_vars /\ WF_vars(Next)

\* ============================================================== properties
Order == << "load", "main", "fetch_dl", "fetch_ml", "write_dl", "write_ml", "create_run",
            "mark_dl", "mark_ml", "done" >>

StepIndex(step) == CHOOSE i \in 1..Len(Order) : Order[i] = step

\* The function of `step` has returned to main.
Past(step) == StepIndex(pc) > StepIndex(step)

\* A call of _request_with_backoff has ended (returned or raised).
CallEnded == call.outcome \in { "returned", "raised" }

\* The delay a 429 response asks for, in seconds: its Retry-After when that is
\* an integer, 1 second when the header is absent or not an integer.
ServerDelay(response) ==
    IF "Retry-After" \in DOMAIN response.headers /\ IntParses(response.headers["Retry-After"])
    THEN IntOf(response.headers["Retry-After"])
    ELSE 1

\* C1: a call whose every attempt is answered 429 makes exactly 8 attempts
\* and then raises the HTTP error of the last 429; it never makes a 9th
\* attempt and never returns a 429 response to its caller.  (A call still
\* running, or ended on a 429, has had only 429 answers: any other answer
\* ends the call.)
C1_GivesUpAfterEight ==
    /\ call.n =< MAX_ATTEMPTS
    /\ (call.outcome = "returned" => resp.status # TOO_MANY_REQUESTS)
    /\ (CallEnded /\ resp.status = TOO_MANY_REQUESTS) =>
           (call.n = MAX_ATTEMPTS /\ status = "failed" /\ exc = "HTTPError")

\* C2: after every 429 response, whatever its Retry-After header, the call
\* sleeps at least the delay the server asked for (1 second when the header
\* is absent or not an integer), and the call does not fail on the header.
C2_SleepsServerDelay ==
    (call.n > 0 /\ resp.status = TOO_MANY_REQUESTS) =>
        /\ call.slept >= ServerDelay(resp)
        /\ call.slept >= 1
        /\ exc # "ValueError"

\* C3: the first answer with an error status other than 429 ends the call
\* with the HTTP error, whatever number of 429 answers came before it: the
\* call is not running any more and the exception has left main.
C3_FailsOnOtherError ==
    (call.n > 0 /\ resp.status # TOO_MANY_REQUESTS /\ resp.status \notin 200..299) =>
        (call.outcome = "raised" /\ status = "failed" /\ exc = "HTTPError")

C3_Witness ==
    call.n = 3 /\ resp.status = 500 /\ call.outcome = "raised" /\ status = "failed"

\* The records of a view the server has handed out, in the order it did.
ServedList(table) == [k \in 1..served[table] |-> Record(table, k)]

\* The continuation token of a page body, None when it carries none.
TokenOf(body) == DictGet(body, "offset", None)

\* The last call was a page request that the server answered with a page.
PageReceived == req.method = "GET" /\ resp.status = 200 /\ call.outcome = "returned"

FetchStep(table) == IF table = TABLE_DAILYLOG THEN "fetch_dl" ELSE "fetch_ml"

\* C4: fetch_records returns the records of all the pages it received, in
\* order (so as many as the pages held together), and a page without a
\* continuation token ends it, also a page of PAGE_SIZE records: the function
\* has then returned, and no further page is requested.
C4_FetchConcatenatesPages ==
    /\ (Past("fetch_dl") => dl = ServedList(TABLE_DAILYLOG))
    /\ (Past("fetch_ml") => ml = ServedList(TABLE_MEALS))
    /\ (pc \in { "fetch_dl", "fetch_ml" } /\ at = "loop") =>
           (out = ServedList(TableOf(pc)) /\ Len(out) = served[TableOf(pc)])
    /\ (PageReceived /\ ~Truthy(TokenOf(resp.body))) => Past(FetchStep(req.table))

C4_Witness ==
    /\ pc = "write_dl"
    /\ Len(ml) = PAGE_SIZE + 1
    /\ PageReceived
    /\ Len(resp.body.records) = PAGE_SIZE
    /\ "offset" \notin DOMAIN resp.body

\* C5: the first page request of a fetch_records call carries no offset,
\* every later one carries the token of the page response just before it, and
\* after a page response the call goes on to another page request exactly
\* when that response carried a non-empty token.
C5_OffsetStep ==
    (status = "running" /\ pc \in { "fetch_dl", "fetch_ml" } /\ at = "loop") =>
        /\ req'.method = "GET"
        /\ req'.table = TableOf(pc)
        /\ IF last_token = None
           THEN "offset" \notin DOMAIN req'.params
           ELSE "offset" \in DOMAIN req'.params /\ req'.params.offset = last_token

C5_Continues ==
    PageReceived =>
        (Truthy(TokenOf(resp.body)) <=>
            (status = "running" /\ pc = FetchStep(req.table) /\ at = "loop"))

C5_OffsetFollowsToken == [](C5_Continues) /\ [][C5_OffsetStep]_vars

C5_Witness ==
    /\ PageReceived
    /\ pages = 2
    /\ "offset" \in DOMAIN req.params
    /\ req.params.offset = "itrA"
    /\ last_token = "itrB"

\* The update calls made for a table, in order.
PatchesOf(table) == SelectSeq(patches, LAMBDA e : e.table = table)

\* The ids of the record entries of all the given update calls, in order.
RECURSIVE PatchedIds(_)
PatchedIds(calls) ==
    IF Len(calls) = 0 THEN << >>
    ELSE record_ids(calls[1].json.records) \o PatchedIds(Tail(calls))

\* The ids of a table's records among the ids the server marked, in order.
MarkedOf(table) ==
    SelectSeq(marked, LAMBDA id : (id =< MaxView) <=> (table = TABLE_DAILYLOG))

ListOf(table) == IF table = TABLE_DAILYLOG THEN dl ELSE ml

MarkStep(table) == IF table = TABLE_DAILYLOG THEN "mark_dl" ELSE "mark_ml"

\* ceil(m / PATCH_BATCH)
CeilBatches(m) == (m + PATCH_BATCH - 1) \div PATCH_BATCH

\* C6: once patch_records_archived has returned for a list of M ids (every
\* update was accepted), it has made ceil(M / 10) update calls, each of 1 to
\* 10 ids, the batches in order are the input list, and all record entries
\* of all batches carry one archived-at timestamp, the run tag and the
\* one-element link to the run record.
C6_BatchesPartitionIds ==
    \A t \in Tables :
        Past(MarkStep(t)) =>
            LET calls == PatchesOf(t) IN
            /\ Len(calls) = CeilBatches(Len(ListOf(t)))
            /\ PatchedIds(calls) = record_ids(ListOf(t))
            /\ \A k \in 1..Len(calls) :
                  /\ Len(calls[k].json.records) \in 1..PATCH_BATCH
                  /\ \A j \in 1..Len(calls[k].json.records) :
                        LET f == calls[k].json.records[j].fields
                            f1 == calls[1].json.records[1].fields
                        IN /\ f[FIELD_ARCHIVED] = TRUE
                           /\ f[FIELD_ARCHIVED_AT] = f1[FIELD_ARCHIVED_AT]
                           /\ f[FIELD_ARCHIVE_BATCH] = run_tag
                           /\ f[FIELD_EXPORT_RUN_LINK] = << run_record_id >>

C6_Witness ==
    /\ status = "done"
    /\ Len(dl) = PAGE_SIZE + 1
    /\ Len(PatchesOf(TABLE_DAILYLOG)) = PATCH_BATCH + 1
    /\ Len(ml) = 1

\* C7: when the update call of batch k fails, the records of the batches
\* before k are marked archived and no record of batch k or of a later batch
\* is; every update call made before it was accepted, and none follows it.
C7_State ==
    /\ \A k \in 1..(Len(patches) - 1) : patches[k].status = 200
    /\ (req.method = "PATCH" /\ CallEnded /\ resp.status # 200) =>
           LET t == req.table
               k == Len(PatchesOf(t))
           IN /\ status = "failed"
              /\ patches[Len(patches)].json = req.json
              /\ MarkedOf(t) = SubSeq(record_ids(ListOf(t)), 1, (k - 1) * PATCH_BATCH)
              /\ Len(MarkedOf(t)) < Len(ListOf(t))
              /\ (t = TABLE_MEALS => MarkedOf(TABLE_DAILYLOG) = record_ids(dl))
              /\ (t = TABLE_DAILYLOG => MarkedOf(TABLE_MEALS) = << >>)

C7_Step == status = "failed" => UNCHANGED vars

C7_PartialArchival == [](C7_State) /\ [][C7_Step]_vars

C7_Witness ==
    /\ status = "failed"
    /\ req.method = "PATCH"
    /\ resp.status = 500
    /\ Len(patches) = 3
    /\ Len(marked) = 2 * PATCH_BATCH
    /\ Len(dl) = PAGE_SIZE

\* Both CSV dumps are on disk.
DumpsWritten == dl_path \in DOMAIN csv /\ meals_path \in DOMAIN csv

\* C8: when the create request is sent both CSV dumps have been written; when
\* an update request is sent the create request has returned the id of the
\* record the server created, and every record entry of every update request
\* links to exactly that id.
C8_ProgramOrder ==
    /\ (req.method \in { "POST", "PATCH" } \/ posts # << >>) => DumpsWritten
    /\ (req.method = "PATCH" \/ patches # << >>) =>
           /\ req.method = "PATCH"
           /\ Len(posts) = 1
           /\ run_record_id # None
           /\ run_record_id = posts[1].id
           /\ \A k \in 1..Len(patches) :
                 \A j \in 1..Len(patches[k].json.records) :
                     patches[k].json.records[j].fields[FIELD_EXPORT_RUN_LINK]
                         = << posts[1].id >>

C8_Witness ==
    /\ req.method = "PATCH"
    /\ Len(patches) = 2
    /\ run_record_id = "recRunB"
    /\ patches[1].table = TABLE_DAILYLOG
    /\ patches[2].table = TABLE_MEALS

\* A call of _request_with_backoff has ended on an error answer.
RequestFailed == CallEnded /\ resp.status >= 400

IsPrefix(a, b) == Len(a) =< Len(b) /\ SubSeq(b, 1, Len(a)) = a

\* C9: a failed request ends the cycle where it is and undoes nothing.  After
\* a failed fetch no CSV is written, no ExportRun is created and no update is
\* sent; after a failed create both CSVs are written and no update is sent;
\* after a failed update the CSVs and the created ExportRun are in place.  No
\* step follows a failure, and no step removes or changes a written file, a
\* created run record or a mark.
C9_State ==
    RequestFailed =>
        /\ status = "failed"
        /\ (req.method = "GET" =>
               csv = << >> /\ posts = << >> /\ patches = << >> /\ marked = << >>
               /\ run_record_id = None)
        /\ (req.method = "POST" =>
               DumpsWritten /\ posts = << >> /\ patches = << >> /\ marked = << >>)
        /\ (req.method = "PATCH" =>
               DumpsWritten /\ Len(posts) = 1 /\ run_record_id = posts[1].id)

C9_Step ==
    /\ status = "failed" => UNCHANGED vars
    /\ \A path \in DOMAIN csv : path \in DOMAIN csv' /\ csv'[path] = csv[path]
    /\ IsPrefix(posts, posts')
    /\ IsPrefix(marked, marked')
    /\ (run_record_id # None => run_record_id' = run_record_id)

C9_FailureStopsCycle == [](C9_State) /\ [][C9_Step]_vars

C9_Witness ==
    /\ status = "failed"
    /\ req.method = "POST"
    /\ resp.status = 500
    /\ call.n = 2
    /\ DumpsWritten
    /\ Len(dl) = 1

PathOf(table) == IF table = TABLE_DAILYLOG THEN dl_path ELSE meals_path

WriteStep(table) == IF table = TABLE_DAILYLOG THEN "write_dl" ELSE "write_ml"

CountField(table) ==
    IF table = TABLE_DAILYLOG THEN RUN_FIELD_DL_COUNT ELSE RUN_FIELD_MEALS_COUNT

\* C10: when the view of a collection returned no record, the cycle goes on:
\* the CSV of that collection holds the header row only, the ExportRun is
\* created with a count of 0 for it, and no update request is sent for it;
\* patch_records_archived returns at once, without a request and without a
\* failure.
C10_State ==
    \A t \in Tables :
        (Past(FetchStep(t)) /\ ListOf(t) = << >>) =>
            /\ (Past(WriteStep(t)) =>
                   /\ PathOf(t) \in DOMAIN csv
                   /\ csv[PathOf(t)] = [header |-> FieldsOf(t), rows |-> << >>])
            /\ (Past("create_run") =>
                   Len(posts) = 1 /\ posts[1].json.fields[CountField(t)] = 0)
            /\ PatchesOf(t) = << >>
            /\ ~(pc = MarkStep(t) /\ at = "loop")
            /\ ~(pc = MarkStep(t) /\ status = "failed")

C10_Step ==
    (status = "running" /\ pc \in { "mark_dl", "mark_ml" } /\ ListOf(TableOf(pc)) = << >>) =>
        (pc' = main_next(pc) /\ status' # "failed" /\ UNCHANGED << req, resp, patches >>)

C10_EmptyViewIsNoFailure == [](C10_State) /\ [][C10_Step]_vars

C10_Witness ==
    /\ status = "done"
    /\ dl = << >>
    /\ Len(ml) = 1
    /\ Len(patches) = 1
    /\ csv[dl_path].rows = << >>

\* ---------------------------------------------------------------------------
\* C11: the exit code

\* The credential or the workspace identifier is missing at startup.
ConfigMissing == ~ ({ "AIRTABLE_TOKEN", "AIRTABLE_BASE_ID" } \subseteq env)

\* The exit code of the process once it has ended. An exception raised while
\* the module is loaded is raised outside the try statement of __main__, so
\* the interpreter ends with code 1; an exception out of main goes through
\* the handlers of __main__.
ExitCode ==
    IF status = "done" THEN 0
    ELSE IF pc = "load" THEN 1
    ELSE exit_code(exc)

\* C11: the process exits with code 2 exactly when the credential or the
\* workspace identifier is missing at startup, and then no request has been
\* sent and no file written; every other failure exits with a non-zero code
\* that is not 2.
C11_ExitTwoIffConfigMissing ==
    status = "failed" =>
        /\ ExitCode # 0
        /\ (ExitCode = 2) <=> ConfigMissing
        /\ ConfigMissing => req.method = "none" /\ csv = << >>

\* What the code does: a missing variable ends the process with code 1
\* before any request, and the only exit with code 2 is a KeyError out of
\* main, which needs both variables set.
C11_CodeExit ==
    status = "failed" =>
        /\ ConfigMissing => ExitCode = 1 /\ pc = "load" /\ req.method = "none" /\ csv = << >>
        /\ ExitCode = 2 => ~ ConfigMissing /\ exc = "KeyError" /\ pc = "create_run"

\* ===========================================================================
\* build_report_html.py

\* The columns build_html reads, transliterated to ASCII.
REPORT_DAY_LABEL == "Den pitaniya"

REPORT_DATE == "Data"

REPORT_MEAL_KEY == "DayKey"

REPORT_MEAL_TIME == "Data i vremya"

\* A text is the sequence of its characters. The characters the model uses,
\* in the order of their code points, which is the order Python compares by.
CodePoints == << " ", "-", "0", "1", "2", "3", "4", "5", "6", "7", "8", "9", ":", "A", "B", "C", "T", "Z" >>

ord(c) == CHOOSE i \in DOMAIN CodePoints : CodePoints[i] = c

\* a < b and a <= b of two str
RECURSIVE StrLess(_, _)
StrLess(a, b) ==
    IF b = << >> THEN FALSE
    ELSE IF a = << >> THEN TRUE
    ELSE IF Head(a) = Head(b) THEN StrLess(Tail(a), Tail(b))
    ELSE ord(Head(a)) < ord(Head(b))

StrLeq(a, b) == a = b \/ StrLess(a, b)

\* a < b and a <= b of two tuples of two str
PairLess(a, b) == IF a[1] = b[1] THEN StrLess(a[2], b[2]) ELSE StrLess(a[1], b[1])

PairLeq(a, b) == a = b \/ PairLess(a, b)

\* s.strip()
RECURSIVE lstrip(_)
lstrip(s) == IF s # << >> /\ Head(s) = " " THEN lstrip(Tail(s)) ELSE s

RECURSIVE rstrip(_)
rstrip(s) == IF s # << >> /\ s[Len(s)] = " " THEN rstrip(SubSeq(s, 1, Len(s) - 1)) ELSE s

strip(s) == rstrip(lstrip(s))

\* d.get(k) or "" of a CSV row: the cell, "" when the column is missing or
\* the cell empty
get_or_empty(row, k) == DictGet(row, k, << >>)

\* build_html: dk of a meal, (m.get("DayKey") or "").strip()
meal_key_no_strip(m) == get_or_empty(m, REPORT_MEAL_KEY)

meal_key(m) == strip(get_or_empty(m, REPORT_MEAL_KEY))

\* build_html: dk of a day, (day.get(<day label>) or "").strip()
day_key(day) == strip(get_or_empty(day, REPORT_DAY_LABEL))

\* build_html: the sort key of a meal
meal_sort_key(m) == get_or_empty(m, REPORT_MEAL_TIME)

\* build_html: the sort key of a day
day_sort_key_label_only(d) == << << >>, get_or_empty(d, REPORT_DAY_LABEL) >>

day_sort_key(d) == << get_or_empty(d, REPORT_DATE), get_or_empty(d, REPORT_DAY_LABEL) >>

\* list.sort(key=...): ascending and stable. The element at index i moves
\* behind the elements of smaller key and the earlier elements of equal key.
SortBy(lst, key(_), less(_, _)) ==
    LET n == Len(lst)
        before(j, i) ==
            \/ less(key(lst[j]), key(lst[i]))
            \/ ~ less(key(lst[i]), key(lst[j])) /\ j < i
        pos(i) == 1 + Cardinality({ j \in 1..n : before(j, i) })
    IN  [p \in 1..n |-> lst[CHOOSE i \in 1..n : pos(i) = p]]

sort_meals(lst) == SortBy(lst, meal_sort_key, StrLess)

sort_days(lst) == SortBy(lst, day_sort_key, PairLess)

\* build_html: by_day after the loop over meals: the meals of each non-empty
\* key, in input order
RECURSIVE group_meals(_)
group_meals(ms) ==
    IF ms = << >> THEN << >>
    ELSE LET rest == group_meals(SubSeq(ms, 1, Len(ms) - 1))
             m == ms[Len(ms)]
             dk == meal_key(m)
         IN  IF dk # << >>
             THEN (dk :> Append(DictGet(rest, dk, << >>), m)) @@ rest
             ELSE rest

\* build_html: chunk(days, 2), the number of days on a page
DAYS_PER_PAGE == 2

\* chunk(lst, n) of build_report_html.py: [lst[i:i + n] for i in range(0, len(lst), n)]
report_chunk(lst, n) ==
    [p \in 1..((Len(lst) + n - 1) \div n) |-> Slice(lst, (p - 1) * n, p * n)]

\* render_day_block(day, meals): the block of one day, as the day row it
\* shows and the meal rows of its table, in order
render_day_block(day, day_meals) == [day |-> day, meals |-> day_meals]

\* build_html: the pages, each the blocks of its days
render_pages(sorted_days, grouped) ==
    LET pgs == report_chunk(sorted_days, DAYS_PER_PAGE) IN
    [p \in DOMAIN pgs |->
        [k \in DOMAIN pgs[p] |->
            render_day_block(pgs[p][k], DictGet(grouped, day_key(pgs[p][k]), << >>))]]

\* ------------------------------------------------------- the report's input
MaxDays == 3

MaxMeals == 2

IsoDay == << "2", "0", "2", "6", "-", "0", "2", "-", "1", "5" >>

\* Rows of the DailyLog CSV. A file dumped by archive_cycle.py has no day
\* label column: its DAILYLOG_FIELDS has none.
DayRow(label, date) == (REPORT_DAY_LABEL :> label) @@ (REPORT_DATE :> date)

DumpedDayRow(date) == (REPORT_DATE :> date)

DayRows ==
    { DumpedDayRow(IsoDay),
      DayRow(<< "A" >>, << "1", "0" >>),
      DayRow(<< "A" >>, << "2" >>),
      DayRow(<< " ", "A" >>, << "2" >>),
      DayRow(<< "B" >>, << "2" >>) }

\* Rows of the Meals CSV: with an empty key cell, with the date as key, as
\* in a dumped file, and with the keys of labelled days and of no day.
MealRow(key, time) == (REPORT_MEAL_KEY :> key) @@ (REPORT_MEAL_TIME :> time)

MealRows ==
    { MealRow(<< >>, IsoDay \o << " ", "0", "8", ":", "3", "0" >>),
      MealRow(IsoDay, IsoDay \o << " ", "0", "8", ":", "3", "0" >>),
      MealRow(<< "A", " " >>, << "1", "0" >>),
      MealRow(<< "A" >>, << "2" >>),
      MealRow(<< "C" >>, << "2" >>) }

ListsOf(S, n) == UNION { [1..k -> S] : k \in 0..n }

InitReport ==
    /\ CycleIdle /\ BadgeIdle /\ FmtIdle /\ CsvIdle
    /\ rpc = "read"
    /\ days \in ListsOf(DayRows, MaxDays)
    /\ meals \in ListsOf(MealRows, MaxMeals)
    /\ by_day = << >>
    /\ doc = << >>

\* build_html, lines 200-209: the meals grouped by key, each group sorted
GroupMeals ==
    /\ rpc = "read"
    /\ LET g == group_meals(meals) IN
       by_day' = [k \in DOMAIN g |-> sort_meals(g[k])]
    /\ rpc' = "grouped"
    /\ UNCHANGED << cycle_vars, days, meals, doc, badge_vars, fmt_vars, csv_vars >>

\* build_html, lines 212-233: the days sorted, cut into pages and rendered
RenderPages ==
    /\ rpc = "grouped"
    /\ days' = sort_days(days)
    /\ doc' = render_pages(days', by_day)
    /\ rpc' = "done"
    /\ UNCHANGED << cycle_vars, meals, by_day, badge_vars, fmt_vars, csv_vars >>

NextReport == GroupMeals \/ RenderPages

SpecReport == InitReport /\ [][NextReport]_vars

\* ---------------------------------------------------------------------------
\* C12 - C14: the report

\* The blocks of the document, page after page.
RECURSIVE Flatten(_)
Flatten(ss) == IF ss = << >> THEN << >> ELSE Head(ss) \o Flatten(Tail(ss))

Blocks == Flatten(doc)

\* The number of times x occurs in the list.
Count(x, lst) == Cardinality({ i \in DOMAIN lst : lst[i] = x })

Prefix(s, n) == SubSeq(s, 1, Min(n, Len(s)))

\* The keys as C12 states them: the day label, else the 10-character prefix
\* of the date; DayKey, else the first 10 characters of the timestamp.
ClaimedDayKey(d) ==
    IF get_or_empty(d, REPORT_DAY_LABEL) # << >>
    THEN get_or_empty(d, REPORT_DAY_LABEL)
    ELSE Prefix(get_or_empty(d, REPORT_DATE), 10)

ClaimedMealKey(m) ==
    IF get_or_empty(m, REPORT_MEAL_KEY) # << >>
    THEN get_or_empty(m, REPORT_MEAL_KEY)
    ELSE Prefix(get_or_empty(m, REPORT_MEAL_TIME), 10)

\* C12: a meal whose key (DayKey, else the first 10 characters of its
\* timestamp) equals the key of a day (the day label, else the 10-character
\* prefix of the date) and is not empty appears in that day's block exactly
\* once; this holds in particular for rows dumped by the archive cycle.
C12_MealInBlockOfItsDay ==
    rpc = "done" =>
        \A b \in DOMAIN Blocks : \A i \in DOMAIN meals :
            (ClaimedMealKey(meals[i]) # << >>
             /\ ClaimedMealKey(meals[i]) = ClaimedDayKey(Blocks[b].day))
                => Count(meals[i], Blocks[b].meals) = Count(meals[i], meals)

\* ---- C13
\* The text s without its leading and trailing spaces, stated by what it is:
\* the part of s from its first to its last character that is not a space.
Stripped(s) ==
    LET inked == { i \in DOMAIN s : s[i] # " " } IN
    IF inked = { } THEN << >>
    ELSE SubSeq(s, CHOOSE i \in inked : \A j \in inked : i <= j,
                   CHOOSE i \in inked : \A j \in inked : i >= j)

\* The grouping keys of the code: the stripped DayKey cell of a meal, the
\* stripped day label cell of a day, empty when the cell is missing.
MealGroupingKey(m) == Stripped(IF REPORT_MEAL_KEY \in DOMAIN m THEN m[REPORT_MEAL_KEY] ELSE << >>)

DayGroupingKey(d) == Stripped(IF REPORT_DAY_LABEL \in DOMAIN d THEN d[REPORT_DAY_LABEL] ELSE << >>)

\* The blocks the meal row m is rendered in.
BlocksHolding(m) == { b \in DOMAIN Blocks : Count(m, Blocks[b].meals) > 0 }

\* C13 as stated: every meal with a non-empty grouping key is rendered in
\* exactly one day block, every meal with an empty or missing key in none.
C13_EachMealInOneBlock ==
    rpc = "done" =>
        \A i \in DOMAIN meals :
            IF MealGroupingKey(meals[i]) # << >>
            THEN /\ Cardinality(BlocksHolding(meals[i])) = 1
                 /\ \A b \in BlocksHolding(meals[i]) :
                        Count(meals[i], Blocks[b].meals) = Count(meals[i], meals)
            ELSE BlocksHolding(meals[i]) = { }

\* C13 amended: a meal with a non-empty grouping key is rendered once in the
\* block of every day whose key equals it (in no block when no day has the
\* key, in several when several days share it), and in no other block; a
\* meal with an empty or missing key is rendered in no block.
C13_MealInEachBlockOfItsKey ==
    rpc = "done" =>
        \A i \in DOMAIN meals : \A b \in DOMAIN Blocks :
            Count(meals[i], Blocks[b].meals) =
                IF /\ MealGroupingKey(meals[i]) # << >>
                   /\ MealGroupingKey(meals[i]) = DayGroupingKey(Blocks[b].day)
                THEN Count(meals[i], meals)
                ELSE 0

\* A report where one meal is in the blocks of two days that share its key,
\* and another meal, with a key, is in no block.
C13_Witness ==
    /\ rpc = "done"
    /\ \E i, j \in DOMAIN meals :
        /\ Cardinality(BlocksHolding(meals[i])) = 2
        /\ MealGroupingKey(meals[j]) # << >>
        /\ BlocksHolding(meals[j]) = { }

\* ---- C14
\* The (date, day label) pair of a day row and the timestamp of a meal row,
\* a missing cell read as the empty text.
DatePair(d) ==
    << IF REPORT_DATE \in DOMAIN d THEN d[REPORT_DATE] ELSE << >>,
       IF REPORT_DAY_LABEL \in DOMAIN d THEN d[REPORT_DAY_LABEL] ELSE << >> >>

TimeOf(m) == IF REPORT_MEAL_TIME \in DOMAIN m THEN m[REPORT_MEAL_TIME] ELSE << >>

\* The day blocks are in ascending order of (date, day label), the meals of
\* each block in ascending order of their timestamp, and every page but the
\* last holds 2 days, the last 1 or 2.
C14_State ==
    rpc = "done" =>
        /\ \A b \in 1..(Len(Blocks) - 1) :
                PairLeq(DatePair(Blocks[b].day), DatePair(Blocks[b + 1].day))
        /\ \A b \in DOMAIN Blocks : \A k \in 1..(Len(Blocks[b].meals) - 1) :
                StrLeq(TimeOf(Blocks[b].meals[k]), TimeOf(Blocks[b].meals[k + 1]))
        /\ \A p \in DOMAIN doc :
                /\ Len(doc[p]) \in 1..2
                /\ p < Len(doc) => Len(doc[p]) = 2

\* The step that renders: every day row of the input is the day of as many
\* blocks as it has occurrences in the input, whatever the input order.
C14_Step ==
    rpc' = "done" /\ rpc # "done" =>
        /\ Len(Flatten(doc')) = Len(days)
        /\ \A i \in DOMAIN days :
                Cardinality({ b \in DOMAIN Flatten(doc') : Flatten(doc')[b].day = days[i] })
                    = Count(days[i], days)

\* C14: the day blocks appear in ascending order of (date, day label) and
\* the meals of a block in ascending order of their timestamp, compared as
\* strings, whatever the order of the input rows; the days are cut in that
\* order into pages of 2, every day on exactly one page.
C14_SortedAndPaged == [] C14_State /\ [][C14_Step]_vars

\* A report of two pages with a block whose two meals were in the other
\* order in the input, and where a day dated "10" precedes a day dated "2":
\* the string order, not the numeric one.
C14_Witness ==
    /\ rpc = "done"
    /\ Len(doc) = 2
    /\ \E b \in DOMAIN Blocks :
        /\ Len(Blocks[b].meals) = 2
        /\ Blocks[b].meals # SubSeq(meals, 1, 2)
    /\ \E b \in 1..(Len(Blocks) - 1) :
        /\ DatePair(Blocks[b].day)[1] = << "1", "0" >>
        /\ DatePair(Blocks[b + 1].day)[1] = << "2" >>

\* ===========================================================================
\* kcal_badge

\* A float: finite (here always a whole number), an infinity (n is its
\* sign), or nan.
Finite(n) == [kind |-> "finite", n |-> n]

Infinity(sign) == [kind |-> "inf", n |-> sign]

NaN == [kind |-> "nan", n |-> 0]

\* float(s) of a str: blanks around it are ignored; after an optional sign
\* it is a run of digits, "nan" or "inf"; anything else raises ValueError.
\* Fractions and exponents, which float() also reads, are not modelled.
float_special(s) == IntBody(strip(s)) \in { << "n", "a", "n" >>, << "i", "n", "f" >> }

float_parses(s) == float_special(s) \/ IntParses(strip(s))

float_of(s) ==
    LET b == strip(s) IN
    IF IntBody(b) = << "n", "a", "n" >> THEN NaN
    ELSE IF IntBody(b) = << "i", "n", "f" >> THEN Infinity(IF b[1] = "-" THEN 0 - 1 ELSE 1)
    ELSE Finite(IntOf(b))

\* t <= 0 of a float: False for nan
float_leq_zero(t) ==
    \/ t.kind = "finite" /\ t.n <= 0
    \/ t.kind = "inf" /\ t.n < 0

\* f / t for a t that is not <= 0: the kind of the quotient
ratio_kind(f, t) ==
    IF f.kind = "nan" \/ t.kind = "nan" \/ (f.kind = "inf" /\ t.kind = "inf") THEN "nan"
    ELSE IF f.kind = "inf" THEN (IF f.n > 0 THEN "+inf" ELSE "-inf")
    ELSE IF t.kind = "inf" THEN "zero"
    ELSE "finite"

\* f / t <= a / b for a t that is not <= 0 and a, b > 0: False when the
\* quotient is nan. For the whole numbers of the model the quotient of two
\* doubles compares with the double nearest to a / b as the exact quotient
\* compares with a / b.
ratio_leq(f, t, bound) ==
    CASE ratio_kind(f, t) = "nan" -> FALSE
      [] ratio_kind(f, t) = "+inf" -> FALSE
      [] ratio_kind(f, t) = "-inf" -> TRUE
      [] ratio_kind(f, t) = "zero" -> TRUE
      [] OTHER -> f.n * bound[2] <= bound[1] * t.n

\* The literals 1.05 and 1.15, as fractions.
KCAL_OK_RATIO == << 105, 100 >>

KCAL_WARN_RATIO == << 115, 100 >>

\* kcal_badge with 1.04 for 1.05.
kcal_badge_tight(a, t) ==
    IF ~ float_parses(a) \/ ~ float_parses(t) THEN "badge"
    ELSE IF float_leq_zero(float_of(t)) THEN "badge"
    ELSE IF ratio_leq(float_of(a), float_of(t), << 104, 100 >>) THEN "badge badge-ok"
    ELSE "badge badge-warn"

\* kcal_badge(fact, target)
kcal_badge(a, t) ==
    IF ~ float_parses(a) \/ ~ float_parses(t) THEN "badge"
    ELSE IF float_leq_zero(float_of(t)) THEN "badge"
    ELSE IF ratio_leq(float_of(a), float_of(t), KCAL_OK_RATIO) THEN "badge badge-ok"
    ELSE IF ratio_leq(float_of(a), float_of(t), KCAL_WARN_RATIO) THEN "badge badge-warn"
    ELSE "badge badge-warn"

\* The cells kcal_badge is called with.
FactTexts ==
    { << >>, << "A" >>, << "n", "a", "n" >>, << "i", "n", "f" >>, << "0" >>, << "-", "5" >>,
      << "1", "8", "0", "0" >>, << "2", "0", "0", "0" >>, << "2", "1", "0", "0" >>,
      << " ", "2", "1", "0", "0" >>, << "2", "1", "0", "1" >>, << "2", "3", "0", "0" >>,
      << "2", "4", "0", "0" >> }

TargetTexts ==
    { << >>, << "A" >>, << "n", "a", "n" >>, << "i", "n", "f" >>, << "0" >>,
      << "-", "2", "0", "0", "0" >>, << "1", "8", "0", "0" >>, << "2", "0", "0", "0" >> }

InitBadge ==
    /\ CycleIdle /\ ReportIdle /\ FmtIdle /\ CsvIdle
    /\ rpc = "args"
    /\ fact \in FactTexts
    /\ target \in TargetTexts
    /\ badge = ""

KcalBadge ==
    /\ rpc = "args"
    /\ badge' = kcal_badge(fact, target)
    /\ rpc' = "done"
    /\ UNCHANGED << cycle_vars, report_vars, fact, target, fmt_vars, csv_vars >>

NextBadge == KcalBadge

SpecBadge == InitBadge /\ [][NextBadge]_vars

\* ---------------------------------------------------------------------------
\* C15: the calorie badge

BADGE_NEUTRAL == "badge"

BADGE_ON_TARGET == "badge badge-ok"

BADGE_WARNING == "badge badge-warn"

\* An input is numeric when float() reads it.
Numeric(s) == float_parses(s)

\* target > 0
TargetPositive == float_of(target).kind # "nan" /\ ~ float_leq_zero(float_of(target))

\* actual / target <= a / 100 and actual / target > a / 100, for a target > 0
RatioAtMost(a) == ratio_leq(float_of(fact), float_of(target), << a, 100 >>)

RatioAbove(a) ==
    /\ ratio_kind(float_of(fact), float_of(target)) # "nan"
    /\ ~ ratio_leq(float_of(fact), float_of(target), << a, 100 >>)

\* C15: kcal_badge returns the on-target class when target > 0 and
\* actual / target <= 1.05 (2100 of 2000), the warning class when target > 0
\* and the ratio is above 1.05 (2100 of 1800; above 1.15 the same class), and
\* the neutral class when target <= 0 or an input is not numeric.
C15_BadgeByRatio ==
    rpc = "done" =>
        /\ (~ Numeric(fact) \/ ~ Numeric(target)) => badge = BADGE_NEUTRAL
        /\ (Numeric(fact) /\ Numeric(target)) =>
            /\ float_leq_zero(float_of(target)) => badge = BADGE_NEUTRAL
            /\ (TargetPositive /\ RatioAtMost(105)) => badge = BADGE_ON_TARGET
            /\ (TargetPositive /\ RatioAbove(105)) => badge = BADGE_WARNING
            /\ (TargetPositive /\ RatioAbove(115)) => badge = BADGE_WARNING
        /\ (fact = << "2", "1", "0", "0" >> /\ target = << "2", "0", "0", "0" >>)
                => badge = BADGE_ON_TARGET
        /\ (fact = << "2", "1", "0", "0" >> /\ target = << "1", "8", "0", "0" >>)
                => badge = BADGE_WARNING

\* kcal_badge has returned for 2100 of 2000, the ratio that is exactly 1.05.
C15_Witness ==
    /\ rpc = "done"
    /\ fact = << "2", "1", "0", "0" >> /\ target = << "2", "0", "0", "0" >>
    /\ badge = BADGE_ON_TARGET

\* ===========================================================================
\* fmt_dt_ddmmyyyy

\* The number of digits s starts with.
RECURSIVE DigitRun(_)
DigitRun(s) == IF s # << >> /\ IsDigit(Head(s)) THEN 1 + DigitRun(Tail(s)) ELSE 0

\* The number of blanks s starts with.
RECURSIVE SpaceRun(_)
SpaceRun(s) == IF s # << >> /\ Head(s) = " " THEN 1 + SpaceRun(Tail(s)) ELSE 0

Drop(s, n) == SubSeq(s, n + 1, Len(s))

StartsWith(s, c) == s # << >> /\ Head(s) = c

IsLeap(y) == (y % 4 = 0 /\ y % 100 # 0) \/ y % 400 = 0

DaysInMonth(y, m) ==
    IF m = 2 THEN (IF IsLeap(y) THEN 29 ELSE 28)
    ELSE IF m \in { 4, 6, 9, 11 } THEN 30 ELSE 31

\* datetime.strptime(s, "%Y-%m-%d %H:%M"): the fields of s, ok FALSE when
\* strptime raises ValueError. %Y is four digits; %m, %d, %H and %M are one
\* or two digits within their range; the blank of the format matches one or
\* more blanks; nothing may follow the minutes; the day must exist.
strptime_ymd_hm(s) ==
    LET ny == DigitRun(s)
        r1 == Drop(s, ny)
        nm == DigitRun(Drop(r1, 1))
        r2 == Drop(r1, 1 + nm)
        nd == DigitRun(Drop(r2, 1))
        r3 == Drop(r2, 1 + nd)
        ns == SpaceRun(r3)
        r4 == Drop(r3, ns)
        nh == DigitRun(r4)
        r5 == Drop(r4, nh)
        nn == DigitRun(Drop(r5, 1))
        r6 == Drop(r5, 1 + nn)
        Y == DigitsValue(SubSeq(s, 1, ny))
        M == DigitsValue(SubSeq(r1, 2, 1 + nm))
        D == DigitsValue(SubSeq(r2, 2, 1 + nd))
        h == DigitsValue(SubSeq(r4, 1, nh))
        mi == DigitsValue(SubSeq(r5, 2, 1 + nn))
    IN  [ok |-> /\ ny = 4 /\ Y >= 1
                /\ StartsWith(r1, "-") /\ nm \in 1..2 /\ M \in 1..12
                /\ StartsWith(r2, "-") /\ nd \in 1..2 /\ D >= 1 /\ D <= DaysInMonth(Y, M)
                /\ ns >= 1
                /\ nh \in 1..2 /\ h <= 23
                /\ StartsWith(r5, ":") /\ nn \in 1..2 /\ mi <= 59
                /\ r6 = << >>,
         year |-> Y, month |-> M, day |-> D, hour |-> h, minute |-> mi]

\* %d, %m, %H, %M of strftime: two digits; %Y of a year from 1000 on: four
Pad2(n) == << DigitChar(n \div 10), DigitChar(n % 10) >>

Pad4(n) == Pad2(n \div 100) \o Pad2(n % 100)

\* dt.strftime("%d.%m.%Y %H:%M")
strftime_dmy_hm(dt) ==
    Pad2(dt.day) \o << "." >> \o Pad2(dt.month) \o << "." >> \o Pad4(dt.year)
        \o << " " >> \o Pad2(dt.hour) \o << ":" >> \o Pad2(dt.minute)

\* fmt_dt_ddmmyyyy(s)
fmt_dt_ddmmyyyy(s) ==
    IF s = << >> THEN << >>
    ELSE IF strptime_ymd_hm(s).ok THEN strftime_dmy_hm(strptime_ymd_hm(s))
    ELSE s

\* The timestamp cells: a date and a time of day in several spellings, with
\* a blank or a T between them, without and with the seconds and Z of the
\* full ISO-8601 form; and two cells that are no timestamp.
YearTexts == { << "2", "0", "2", "5" >>, << "2", "0", "2", "4" >> }

MonthTexts == { << "0", "9" >>, << "9" >>, << "1", "3" >>, << "0", "2" >> }

DayTexts == { << "2", "6" >>, << "6" >>, << "3", "0" >> }

HourTexts == { << "0", "8" >>, << "2", "4" >> }

MinuteTexts == { << "3", "0" >>, << "6", "0" >> }

IsoTail == << ":", "0", "0", ".", "0", "0", "0", "Z" >>

TimestampTexts ==
    { y \o << "-" >> \o m \o << "-" >> \o d \o sep \o h \o << ":" >> \o mi \o tail :
        y \in YearTexts, m \in MonthTexts, d \in DayTexts, sep \in { << " " >>, << "T" >> },
        h \in HourTexts, mi \in MinuteTexts, tail \in { << >>, IsoTail } }

NotADate == << "n", "o", "t", "-", "a", "-", "d", "a", "t", "e" >>

InitFmt ==
    /\ CycleIdle /\ ReportIdle /\ BadgeIdle /\ CsvIdle
    /\ rpc = "args"
    /\ raw_dt \in TimestampTexts \cup { << >>, NotADate }
    /\ meal_dt = << >>

\* render_day_block: meal_dt = fmt_dt_ddmmyyyy(raw_meal_dt)
FmtDt ==
    /\ rpc = "args"
    /\ meal_dt' = fmt_dt_ddmmyyyy(raw_dt)
    /\ rpc' = "done"
    /\ UNCHANGED << cycle_vars, report_vars, badge_vars, raw_dt, csv_vars >>

NextFmt == FmtDt

SpecFmt == InitFmt /\ [][NextFmt]_vars

\* ---------------------------------------------------------------------------
\* C16: the timestamp formatter

AllDigits(s, positions) == \A i \in positions : IsDigit(s[i])

\* The date and time of day that the first 16 characters of s spell exist.
SpellsMoment(s) ==
    /\ AllDigits(s, { 1, 2, 3, 4, 6, 7, 9, 10, 12, 13, 15, 16 })
    /\ s[5] = "-" /\ s[8] = "-" /\ s[14] = ":"
    /\ DigitsValue(SubSeq(s, 6, 7)) \in 1..12
    /\ DigitsValue(SubSeq(s, 9, 10)) \in
            1..DaysInMonth(DigitsValue(SubSeq(s, 1, 4)), DigitsValue(SubSeq(s, 6, 7)))
    /\ DigitsValue(SubSeq(s, 12, 13)) <= 23
    /\ DigitsValue(SubSeq(s, 15, 16)) <= 59

\* s has the form YYYY-MM-DD HH:MM.
IsPlainForm(s) == Len(s) = 16 /\ s[11] = " " /\ SpellsMoment(s)

\* s has the full ISO-8601 form YYYY-MM-DDTHH:MM:SS.mmmZ.
IsIsoZForm(s) ==
    /\ Len(s) = 24 /\ s[11] = "T" /\ SpellsMoment(s)
    /\ s[17] = ":" /\ s[20] = "." /\ s[24] = "Z"
    /\ AllDigits(s, { 18, 19, 21, 22, 23 })
    /\ DigitsValue(SubSeq(s, 18, 19)) <= 59

\* DD.MM.YYYY HH:MM of a text of either form; Z is UTC, so no shift.
Rendered(s) ==
    SubSeq(s, 9, 10) \o << "." >> \o SubSeq(s, 6, 7) \o << "." >> \o SubSeq(s, 1, 4)
        \o << " " >> \o SubSeq(s, 12, 16)

IsoExample ==
    << "2", "0", "2", "5", "-", "0", "9", "-", "2", "6", "T", "0", "8", ":", "3", "0" >> \o IsoTail

\* C16: the formatter renders a value of the form YYYY-MM-DD HH:MM and a
\* value of the full ISO-8601 form with Z as DD.MM.YYYY HH:MM, so that
\* 2025-09-26T08:30:00.000Z becomes 26.09.2025 08:30, and returns a value
\* that is no timestamp unchanged.
C16_FormatsBothForms ==
    rpc = "done" =>
        /\ IsPlainForm(raw_dt) => meal_dt = Rendered(raw_dt)
        /\ IsIsoZForm(raw_dt) => meal_dt = Rendered(raw_dt)
        /\ raw_dt = IsoExample =>
                meal_dt = << "2", "6", ".", "0", "9", ".", "2", "0", "2", "5", " ", "0", "8", ":", "3", "0" >>
        /\ raw_dt = NotADate => meal_dt = raw_dt

\* What the code does: the form YYYY-MM-DD HH:MM is rendered, a value of the
\* full ISO-8601 form is returned as it is.
C16_CodeFormat ==
    rpc = "done" =>
        /\ IsPlainForm(raw_dt) => meal_dt = Rendered(raw_dt)
        /\ IsIsoZForm(raw_dt) => meal_dt = raw_dt
        /\ raw_dt = NotADate => meal_dt = raw_dt

\* ===========================================================================
\* write_csv_utf8sig and read_csv, at the level of the characters of the file

\* A cell value of a record: a str, an int, a list of str and int, or a dict
\* (given by the characters of its str()).
Str(chars) == [kind |-> "str", chars |-> chars]

Int_(n) == [kind |-> "int", n |-> n]

List(items) == [kind |-> "list", items |-> items]

Dict(repr) == [kind |-> "dict", repr |-> repr]

\* str(n) of an int n >= 0
RECURSIVE NatText(_)
NatText(n) == IF n < 10 THEN << DigitChar(n) >> ELSE NatText(n \div 10) \o << DigitChar(n % 10) >>

\* str(x) of a str or an int
py_str(x) == IF x.kind = "int" THEN NatText(x.n) ELSE x.chars

\* "; ".join(str(x) for x in v)
RECURSIVE join_semicolon(_)
join_semicolon(v) ==
    IF v = << >> THEN << >>
    ELSE IF Len(v) = 1 THEN py_str(v[1])
    ELSE py_str(v[1]) \o << ";", " " >> \o join_semicolon(Tail(v))

\* The text csv.writer writes for the cell _normalize_cell(v): the joined
\* list, str(v) of a dict, str(v) of anything else.
cell_text(x) ==
    IF x.kind = "list" THEN join_semicolon(x.items)
    ELSE IF x.kind = "dict" THEN x.repr
    ELSE py_str(x)

\* write_csv_utf8sig: row, the texts of the cells of one record; "" for a
\* field the record does not have
row_texts(fields, rec) ==
    [c \in DOMAIN fields |->
        IF fields[c] \in DOMAIN DictGet(rec, "fields", << >>)
        THEN cell_text(rec.fields[fields[c]])
        ELSE << >>]

\* csv.writer, excel dialect, QUOTE_MINIMAL
QUOTECHAR == "\""

DELIMITER == ","

CR == "\r"

LF == "\n"

BOM == "<BOM>"

needs_quotes(s) == \E i \in DOMAIN s : s[i] \in { DELIMITER, QUOTECHAR, CR, LF }

RECURSIVE double_quotes(_)
double_quotes(s) ==
    IF s = << >> THEN << >>
    ELSE (IF Head(s) = QUOTECHAR THEN << QUOTECHAR, QUOTECHAR >> ELSE << Head(s) >>)
            \o double_quotes(Tail(s))

\* One field as written without doubling the quote characters inside it.
csv_field_no_doubling(s, alone) ==
    IF needs_quotes(s) \/ (alone /\ s = << >>)
    THEN << QUOTECHAR >> \o s \o << QUOTECHAR >>
    ELSE s

\* One field as written; alone: it is the only field of its row, where an
\* empty text is written as "" so that the line is not blank
csv_field(s, alone) ==
    IF needs_quotes(s) \/ (alone /\ s = << >>)
    THEN << QUOTECHAR >> \o double_quotes(s) \o << QUOTECHAR >>
    ELSE s

RECURSIVE csv_join(_, _)
csv_join(row, alone) ==
    IF row = << >> THEN << >>
    ELSE IF Len(row) = 1 THEN csv_field(row[1], alone)
    ELSE csv_field(row[1], alone) \o << DELIMITER >> \o csv_join(Tail(row), alone)

\* w.writerow(row): the fields, comma separated, and the line terminator
csv_writerow(row) == csv_join(row, Len(row) = 1) \o << CR, LF >>

RECURSIVE csv_writerows(_)
csv_writerows(rows) ==
    IF rows = << >> THEN << >> ELSE csv_writerow(Head(rows)) \o csv_writerows(Tail(rows))

\* The characters of the file write_csv_utf8sig leaves: the byte order mark
\* of utf-8-sig, the header row, a row per record.
write_csv_text(fields, records) ==
    << BOM >> \o csv_writerow(fields)
        \o csv_writerows([k \in DOMAIN records |-> row_texts(fields, records[k])])

\* csv.reader, excel dialect, over the characters of a file opened with
\* newline="". The parser's state: st, its state of that name; field, the
\* characters of the field being read; row, the fields of the record being
\* read; rows, the records read. A line end outside quotes ends the record;
\* the line ends that follow it belong to it (or are blank lines, which
\* DictReader skips).
csv_start == [st |-> "START_RECORD", field |-> << >>, row |-> << >>, rows |-> << >>]

csv_next(st, field, row, rows) == [st |-> st, field |-> field, row |-> row, rows |-> rows]

\* parse_process_char: the state after the character c
csv_step(ps, c) ==
    LET eol == c \in { CR, LF }
        st == IF ps.st \in { "START_RECORD", "EAT_CRNL" } /\ ~ eol THEN "START_FIELD" ELSE ps.st
        saved == Append(ps.row, ps.field)
    IN
    CASE st \in { "START_RECORD", "EAT_CRNL" } -> csv_next("EAT_CRNL", << >>, << >>, ps.rows)
      [] st = "START_FIELD" ->
            IF eol THEN csv_next("EAT_CRNL", << >>, << >>, Append(ps.rows, Append(ps.row, << >>)))
            ELSE IF c = QUOTECHAR THEN csv_next("IN_QUOTED_FIELD", << >>, ps.row, ps.rows)
            ELSE IF c = DELIMITER THEN csv_next("START_FIELD", << >>, Append(ps.row, << >>), ps.rows)
            ELSE csv_next("IN_FIELD", << c >>, ps.row, ps.rows)
      [] st = "IN_FIELD" ->
            IF eol THEN csv_next("EAT_CRNL", << >>, << >>, Append(ps.rows, saved))
            ELSE IF c = DELIMITER THEN csv_next("START_FIELD", << >>, saved, ps.rows)
            ELSE csv_next("IN_FIELD", Append(ps.field, c), ps.row, ps.rows)
      [] st = "IN_QUOTED_FIELD" ->
            IF c = QUOTECHAR THEN csv_next("QUOTE_IN_QUOTED_FIELD", ps.field, ps.row, ps.rows)
            ELSE csv_next("IN_QUOTED_FIELD", Append(ps.field, c), ps.row, ps.rows)
      [] st = "QUOTE_IN_QUOTED_FIELD" ->
            IF c = QUOTECHAR THEN csv_next("IN_QUOTED_FIELD", Append(ps.field, c), ps.row, ps.rows)
            ELSE IF c = DELIMITER THEN csv_next("START_FIELD", << >>, saved, ps.rows)
            ELSE IF eol THEN csv_next("EAT_CRNL", << >>, << >>, Append(ps.rows, saved))
            ELSE csv_next("IN_FIELD", Append(ps.field, c), ps.row, ps.rows)

\* The records read when the file ends in the state ps: a record being
\* read is complete.
csv_at_end(ps) ==
    IF ps.st \in { "START_RECORD", "EAT_CRNL" } THEN ps.rows
    ELSE Append(ps.rows, Append(ps.row, ps.field))

\* One record: the characters of s from pos on, up to the line ends that
\* end the record; ps is the state before s[pos]. Gives the record (no
\* record for blank lines) and the position after it.
RECURSIVE csv_record(_, _, _)
csv_record(s, pos, ps) ==
    IF pos > Len(s) THEN [rows |-> csv_at_end(ps), next |-> pos]
    ELSE IF ps.st = "EAT_CRNL" /\ s[pos] \notin { CR, LF } THEN [rows |-> ps.rows, next |-> pos]
    ELSE csv_record(s, pos + 1, csv_step(ps, s[pos]))

\* The records of the text s from pos on.
RECURSIVE csv_rows_from(_, _)
csv_rows_from(s, pos) ==
    IF pos > Len(s) THEN << >>
    ELSE LET r == csv_record(s, pos, csv_start) IN r.rows \o csv_rows_from(s, r.next)

csv_parse(s) == csv_rows_from(s, 1)

\* open(encoding="utf-8-sig"): a byte order mark at the start is dropped
decode_utf8_sig(text) == IF text # << >> /\ Head(text) = BOM THEN Tail(text) ELSE text

\* The dict DictReader makes of a row: a key per field name, the last of the
\* cells under a name that occurs twice; None for a cell the row lacks
dict_of_row(fieldnames, row) ==
    [f \in { fieldnames[c] : c \in DOMAIN fieldnames } |->
        LET c == CHOOSE c \in DOMAIN fieldnames :
                    /\ fieldnames[c] = f
                    /\ \A d \in DOMAIN fieldnames : fieldnames[d] = f => d <= c
        IN  IF c \in DOMAIN row THEN row[c] ELSE << None >>]

\* read_csv(path): list(csv.DictReader(f)), with the field names it took
\* from the first row
read_csv(text) ==
    LET parsed == csv_parse(decode_utf8_sig(text))
        fieldnames == IF parsed = << >> THEN << >> ELSE Head(parsed)
        body == IF parsed = << >> THEN << >> ELSE Tail(parsed)
    IN  [fieldnames |-> fieldnames,
         rows |-> [k \in DOMAIN body |-> dict_of_row(fieldnames, body[k])]]

\* ------------------------------------------------------------ the records
MaxRecords == 2

FieldD == << "D" >>

FieldO == << "O", ",", "p" >>

FieldLists == { << FieldD >>, << FieldD, FieldO >> }

PlainText == << "a" >>

\* A text with a blank, a quote, a comma and both line end characters.
AwkwardText == << " ", QUOTECHAR, DELIMITER, CR, LF, "b" >>

CellValues ==
    { Str(PlainText), Str(AwkwardText), Int_(70),
      List(<< Str(PlainText), Int_(7) >>),
      Dict(<< "{", "'", "k", "'", ":", " ", "1", ",", " ", "'", "j", "'", ":", " ", "2", "}" >>) }

\* The fields of a record: a value for some of the columns.
FieldMaps(fields) ==
    UNION { [S -> CellValues] : S \in SUBSET { fields[c] : c \in DOMAIN fields } }

InitCsv ==
    /\ CycleIdle /\ ReportIdle /\ BadgeIdle /\ FmtIdle
    /\ rpc = "args"
    /\ csv_fields \in FieldLists
    /\ csv_records \in ListsOf({ [fields |-> f] : f \in FieldMaps(csv_fields) }, MaxRecords)
    /\ csv_text = << >>
    /\ csv_back = << >>

\* archive_cycle.py: write_csv_utf8sig(path, fields, records)
WriteCsv ==
    /\ rpc = "args"
    /\ csv_text' = write_csv_text(csv_fields, csv_records)
    /\ rpc' = "written"
    /\ UNCHANGED << cycle_vars, report_vars, badge_vars, fmt_vars, csv_fields, csv_records, csv_back >>

\* build_report_html.py: read_csv(path) of that file
ReadCsv ==
    /\ rpc = "written"
    /\ csv_back' = read_csv(csv_text)
    /\ rpc' = "done"
    /\ UNCHANGED << cycle_vars, report_vars, badge_vars, fmt_vars, csv_fields, csv_records, csv_text >>

NextCsv == WriteCsv \/ ReadCsv

SpecCsv == InitCsv /\ [][NextCsv]_vars

\* ---------------------------------------------------------------------------
\* C17: the CSV round trip

\* The normalized value of a cell as a text: a list joined by "; ", the
\* string form of anything else; empty for a field the record lacks.
NormalizedText(rec, f) ==
    IF f \in DOMAIN rec.fields THEN cell_text(rec.fields[f]) ELSE << >>

\* C17: reading back with read_csv what write_csv_utf8sig wrote for N
\* records and K columns gives the field list as header, in order, and N
\* rows in the order of the records, every cell the normalized value of the
\* record's field, the empty text for a field the record lacks.
C17_CsvRoundTrip ==
    rpc = "done" =>
        /\ csv_back.fieldnames = csv_fields
        /\ Len(csv_back.rows) = Len(csv_records)
        /\ \A k \in DOMAIN csv_records :
            /\ DOMAIN csv_back.rows[k] = { csv_fields[c] : c \in DOMAIN csv_fields }
            /\ \A c \in DOMAIN csv_fields :
                csv_back.rows[k][csv_fields[c]] = NormalizedText(csv_records[k], csv_fields[c])
            /\ (FieldD \in DOMAIN csv_records[k].fields
                /\ csv_records[k].fields[FieldD] = List(<< Str(PlainText), Int_(7) >>))
                    => csv_back.rows[k][FieldD] = << "a", ";", " ", "7" >>

\* Two records of two columns read back, the first with a text that needs
\* quoting, the second lacking a field.
C17_Witness ==
    /\ rpc = "done"
    /\ Len(csv_fields) = 2 /\ Len(csv_back.rows) = 2
    /\ csv_back.rows[1][FieldD] = AwkwardText
    /\ FieldO \notin DOMAIN csv_records[2].fields
    /\ csv_back.rows[2][FieldO] = << >>

\* ---------------------------------------------------------------------------
\* C18: throttling

\* The last answer was a 429 that was not the 8th in a row for its request.
Throttled == call.n > 0 /\ call.n < MAX_ATTEMPTS /\ resp.status = TOO_MANY_REQUESTS

\* C18: throttling is invisible: a request answered 429 fewer than 8 times
\* in a row is sent again and the cycle goes on as against a server that
\* never throttles; the records fetched are the records the server handed
\* out, and the updates applied are the ids of the list, in order, none
\* applied twice and none skipped.
C18_ThrottlingInvisible ==
    /\ Throttled => (call.outcome = "running" /\ status = "running")
    /\ (pc \in { "fetch_dl", "fetch_ml" } /\ at = "loop") => out = ServedList(TableOf(pc))
    /\ \A t \in Tables : IsPrefix(MarkedOf(t), [k \in DOMAIN ListOf(t) |-> ListOf(t)[k].id])

\* What the code does: the same, except that a 429 whose Retry-After is not
\* an integer ends the call and the cycle with a ValueError.
C18_CodeThrottling ==
    /\ Throttled =>
        \/ call.outcome = "running" /\ status = "running"
        \/ /\ status = "failed" /\ exc = "ValueError"
           /\ ~ IntParses(DictGet(resp.headers, "Retry-After", << "1" >>))
    /\ (pc \in { "fetch_dl", "fetch_ml" } /\ at = "loop") => out = ServedList(TableOf(pc))
    /\ \A t \in Tables : IsPrefix(MarkedOf(t), [k \in DOMAIN ListOf(t) |-> ListOf(t)[k].id])

\* ---------------------------------------------------------------------------
\* C20: what is marked was fetched and dumped

\* The ids of the record entries of the update call e.
SentIds(e) == [j \in DOMAIN e.json.records |-> e.json.records[j].id]

\* All ids sent in the update calls for a table, in order.
RECURSIVE SentIdsOf(_, _)
SentIdsOf(calls, table) ==
    IF calls = << >> THEN << >>
    ELSE (IF Head(calls).table = table THEN SentIds(Head(calls)) ELSE << >>)
            \o SentIdsOf(Tail(calls), table)

\* The record with this id was handed out by the server as the p-th record
\* of the table's view in this cycle, and row p of the table's CSV dump is
\* the row of that record.
FetchedAndDumped(table, id) ==
    \E p \in 1..served[table] :
        /\ RecId(table, p) = id
        /\ PathOf(table) \in DOMAIN csv
        /\ p \in DOMAIN csv[PathOf(table)].rows
        /\ csv[PathOf(table)].rows[p] = csv_row(FieldsOf(table), Record(table, p))

\* When the cycle has completed, the ids sent for each collection are the
\* ids of the records fetched for it, with multiplicity and in order; and at
\* any time no DailyLog update follows a Meals update.
C20_State ==
    /\ status = "done" =>
            \A t \in Tables : SentIdsOf(patches, t) = [p \in 1..served[t] |-> RecId(t, p)]
    /\ \A k, l \in DOMAIN patches :
            (k < l /\ patches[k].table = TABLE_MEALS) => patches[l].table = TABLE_MEALS

\* A step that sends an update request sends ids of records that were
\* fetched and dumped; and once an update has been sent, what was fetched,
\* what was dumped and the updates sent before stay as they are, and an
\* update sent again carries the same ids.
C20_Step ==
    /\ patches' # patches =>
            \A e \in { patches'[Len(patches')] } :
                \A id \in { e.json.records[j].id : j \in DOMAIN e.json.records } :
                    FetchedAndDumped(e.table, id)
    /\ patches # << >> =>
            /\ UNCHANGED << served, csv >>
            /\ Len(patches') >= Len(patches)
            /\ SubSeq(patches', 1, Len(patches) - 1) = SubSeq(patches, 1, Len(patches) - 1)
            /\ SentIds(patches'[Len(patches)]) = SentIds(patches[Len(patches)])
            /\ patches'[Len(patches)].table = patches[Len(patches)].table

\* C20: every id sent in an update request is the id of a record fetched in
\* this cycle and written as a row of the CSV dump of its collection (it is
\* so when the request is sent, and nothing fetched, dumped or sent changes
\* afterwards); when the cycle has completed, the ids sent for each
\* collection are exactly the ids of the records fetched for it, with
\* multiplicity and in order; and no DailyLog update follows a Meals update.
C20_MarkedWereFetchedAndDumped == [] C20_State /\ [][C20_Step]_vars

\* A completed cycle that marked the records of both collections, the
\* DailyLog records in more than one update.
C20_Witness ==
    /\ status = "done"
    /\ Len(PatchesOf(TABLE_DAILYLOG)) > 1
    /\ Len(PatchesOf(TABLE_MEALS)) > 0

\* ---------------------------------------------------------------------------
\* C19: termination

\* The cycle has ended, in completion or in a raised failure.
Ended == status \in { "done", "failed" }

\* fetch_records has returned to main at least once.
FetchReturned == pc \notin { "load", "main", "fetch_dl" }

\* No call of _request_with_backoff makes more than 8 attempts, and
\* patch_records_archived makes at most ceil(M/10) calls for a list of M ids.
C19_Bounded ==
    /\ call.n <= MAX_ATTEMPTS
    /\ \A t \in Tables : Len(PatchesOf(t)) <= CeilBatches(Len(ListOf(t)))

\* Against a server that puts a token on every page, fetch_records never
\* returns.
C19_EndlessNeverReturns == srv = "endless" => ~ FetchReturned /\ status # "done"

\* C19: every cycle eventually ends, in completion or in a raised failure,
\* provided the server eventually answers a page without a continuation
\* token; each call of _request_with_backoff ends after at most 8 attempts,
\* patch_records_archived after at most ceil(M/10) calls; and against a
\* server that answers every page with a token fetch_records never returns.
C19_CycleEnds ==
    /\ [] C19_Bounded
    /\ [] C19_EndlessNeverReturns
    /\ (srv = "lean" => <> Ended)

\* A cycle that marked a DailyLog list of more than one batch in ceil(M/10)
\* calls and ended in a failure when the eighth attempt of a Meals update was
\* answered 429.
C19_Witness ==
    /\ srv = "lean" /\ status = "failed" /\ pc = "mark_ml"
    /\ call.n = MAX_ATTEMPTS /\ resp.status = TOO_MANY_REQUESTS
    /\ Len(PatchesOf(TABLE_DAILYLOG)) = CeilBatches(Len(dl)) /\ Len(dl) > PATCH_BATCH
====
